---- MODULE Spec2Model ----
(***************************************************************************)
(* Model of notebooks/readcsv.py: read_csv (a .csv file read into a list   *)
(* of namedtuples) and create_example_csv_file, acting on one file path.   *)
(*                                                                         *)
(* Text is a sequence of one-character strings.  The file system is the    *)
(* state of the one path the functions are called with.  read_csv is cut   *)
(* into the steps of its source lines so that the exit paths of its 'with' *)
(* block are states of the model.                                          *)
(***************************************************************************)
EXTENDS Integers, Sequences, FiniteSets, TLC

NL    == "\n"
QUOTE == "\""
COMMA == ","
SPACE == " "

(* Bounds of the model: the longest file present before the first call,    *)
(* and the characters such a file is made of.                              *)
MaxLen == 5
Alphabet == {"a", "s", "5", COMMA, QUOTE, NL, SPACE}

Letters ==
    {"a","b","c","d","e","f","g","h","i","j","k","l","m","n","o","p","q","r","s","t","u",
     "v","w","x","y","z","A","B","C","D","E","F","G","H","I","J","K","L","M","N","O","P",
     "Q","R","S","T","U","V","W","X","Y","Z"}
Digits == {"0","1","2","3","4","5","6","7","8","9"}
Whitespace == {SPACE, NL, "\t", "\r", "\f"}

(* keyword.kwlist, which namedtuple's _iskeyword tests against *)
Keywords == {
    <<"F","a","l","s","e">>, <<"N","o","n","e">>, <<"T","r","u","e">>, <<"a","n","d">>,
    <<"a","s">>, <<"a","s","s","e","r","t">>, <<"a","s","y","n","c">>, <<"a","w","a","i","t">>,
    <<"b","r","e","a","k">>, <<"c","l","a","s","s">>, <<"c","o","n","t","i","n","u","e">>,
    <<"d","e","f">>, <<"d","e","l">>, <<"e","l","i","f">>, <<"e","l","s","e">>,
    <<"e","x","c","e","p","t">>, <<"f","i","n","a","l","l","y">>, <<"f","o","r">>,
    <<"f","r","o","m">>, <<"g","l","o","b","a","l">>, <<"i","f">>, <<"i","m","p","o","r","t">>,
    <<"i","n">>, <<"i","s">>, <<"l","a","m","b","d","a">>, <<"n","o","n","l","o","c","a","l">>,
    <<"n","o","t">>, <<"o","r">>, <<"p","a","s","s">>, <<"r","a","i","s","e">>,
    <<"r","e","t","u","r","n">>, <<"t","r","y">>, <<"w","h","i","l","e">>, <<"w","i","t","h">>,
    <<"y","i","e","l","d">> }

(* the text create_example_csv_file writes *)
contents ==
       <<"f","i","r","s","t","_","n","a","m","e",COMMA,"s","e","c","o","n","d","_","n","a","m","e",COMMA,"a","g","e",COMMA,"h","e","i","g","h","t",COMMA,"g","e","n","d","e","r",NL>>
    \o <<"F","r","e","d",COMMA,"B","l","o","g","g","s",COMMA,"5","9",COMMA,"1",".","9","5",COMMA,"m","a","l","e",NL>>
    \o <<"P","e","t","e","r",COMMA,"B","l","o","g","g","s",COMMA,"1","5",COMMA,"1",".","8","6",COMMA,"m","a","l","e",NL>>
    \o <<"A","n","n",COMMA,"S","o","m","e","b","o","d","y",COMMA,"3","2",COMMA,"1",".","7","6",COMMA,"f","e","m","a","l","e",NL>>
    \o <<"A","d","a",COMMA,"L","o","v","e","l","a","c","e",COMMA,"4","6",COMMA,"1",".","6","7",COMMA,"f","e","m","a","l","e",NL>>

----------------------------------------------------------------------------
(* Text operations of the Python runtime, computed as the runtime does.    *)

(* s.replace(ch, ''): every occurrence of ch is dropped *)
RECURSIVE replace(_, _)
replace(s, ch) ==
    IF s = <<>> THEN <<>>
    ELSE IF Head(s) = ch THEN replace(Tail(s), ch)
    ELSE <<Head(s)>> \o replace(Tail(s), ch)

(* s.rstrip(ch): trailing occurrences of ch are dropped *)
RECURSIVE rstrip(_, _)
rstrip(s, ch) ==
    IF s # <<>> /\ s[Len(s)] = ch THEN rstrip(SubSeq(s, 1, Len(s) - 1), ch) ELSE s

(* s.split(sep): the pieces between the separators; always at least one piece *)
RECURSIVE splitFrom(_, _, _)
splitFrom(s, sep, cur) ==
    IF s = <<>> THEN <<cur>>
    ELSE IF Head(s) = sep THEN <<cur>> \o splitFrom(Tail(s), sep, <<>>)
    ELSE splitFrom(Tail(s), sep, Append(cur, Head(s)))

split(s, sep) == splitFrom(s, sep, <<>>)

(* s.split(): the runs of non-whitespace characters; empty pieces are dropped *)
RECURSIVE splitWhitespaceFrom(_, _)
splitWhitespaceFrom(s, cur) ==
    IF s = <<>> THEN (IF cur = <<>> THEN <<>> ELSE <<cur>>)
    ELSE IF Head(s) \in Whitespace
         THEN (IF cur = <<>> THEN <<>> ELSE <<cur>>) \o splitWhitespaceFrom(Tail(s), <<>>)
    ELSE splitWhitespaceFrom(Tail(s), Append(cur, Head(s)))

splitWhitespace(s) == splitWhitespaceFrom(s, <<>>)

(* s.replace(old, new) for single characters *)
replaceWith(s, old, new) == [i \in 1..Len(s) |-> IF s[i] = old THEN new ELSE s[i]]

(* f.readline() at position pos: the text up to and including the next    *)
(* newline, or up to the end of the file                                   *)
RECURSIVE readline(_, _)
readline(text, pos) ==
    IF pos >= Len(text) THEN <<>>
    ELSE IF text[pos + 1] = NL THEN <<NL>>
    ELSE <<text[pos + 1]>> \o readline(text, pos + 1)

(* f.readlines() at position pos: the remaining lines, terminators kept *)
RECURSIVE readlines(_, _)
readlines(text, pos) ==
    IF pos >= Len(text) THEN <<>>
    ELSE LET l == readline(text, pos) IN <<l>> \o readlines(text, pos + Len(l))

(* str.isidentifier() on ASCII text *)
isidentifier(name) ==
    /\ name # <<>>
    /\ name[1] \in Letters \cup {"_"}
    /\ \A i \in 1..Len(name) : name[i] \in Letters \cup Digits \cup {"_"}

iskeyword(name) == name \in Keywords

----------------------------------------------------------------------------
(* collections.namedtuple("Row", header), as called at line 29.            *)

(* fieldNames splitting the header on commas alone *)
fieldNamesCommaOnly(header) == split(header, COMMA)

(* the field names namedtuple takes from a string: commas become spaces,   *)
(* then the string is split on whitespace                                  *)
fieldNames(header) == splitWhitespace(replaceWith(header, COMMA, SPACE))

hasDuplicate(names) ==
    \E i, j \in 1..Len(names) : i < j /\ names[i] = names[j]

(* validFieldNames without the test for a repeated name *)
validFieldNamesRepeated(names) ==
    /\ \A i \in 1..Len(names) : isidentifier(names[i]) /\ ~iskeyword(names[i])
    /\ \A i \in 1..Len(names) : names[i][1] # "_"

(* namedtuple raises ValueError unless every name is an identifier, is no  *)
(* keyword, does not start with an underscore and occurs once              *)
validFieldNames(names) ==
    /\ \A i \in 1..Len(names) : isidentifier(names[i]) /\ ~iskeyword(names[i])
    /\ \A i \in 1..Len(names) : names[i][1] # "_"
    /\ ~hasDuplicate(names)

(* rowAccepts without the test of the number of arguments *)
rowAcceptsAny(fields, tokens) == TRUE

(* Row called with the tokens: the constructor takes exactly one argument per field *)
rowAccepts(fields, tokens) == Len(tokens) = Len(fields)

(* the record the Row constructor makes: a tuple of the tokens, of class Row *)
Row(fields, tokens) == [fields |-> fields, values |-> tokens]

(* lineTokens with rstrip() in place of rstrip('\n'): all trailing        *)
(* whitespace is dropped                                                   *)
RECURSIVE rstripWhitespace(_)
rstripWhitespace(s) ==
    IF s # <<>> /\ s[Len(s)] \in Whitespace
    THEN rstripWhitespace(SubSeq(s, 1, Len(s) - 1)) ELSE s

lineTokensStripped(line) == split(rstripWhitespace(replace(line, QUOTE)), COMMA)

(* the tokens of one data line, line 35 *)
lineTokens(line) == split(rstrip(replace(line, QUOTE), NL), COMMA)

(* r[i]: access by position *)
getByIndex(r, i) == r.values[i]

(* getByName with each name bound to the position after its own *)
getByNameShifted(r, name) ==
    LET idx == CHOOSE i \in 1..Len(r.fields) :
                   /\ r.fields[i] = name
                   /\ \A j \in 1..Len(r.fields) : r.fields[j] = name => j <= i
    IN r.values[(idx % Len(r.values)) + 1]

(* r.<name>: namedtuple binds each name to the getter of its position; a   *)
(* later binding of the same name would replace an earlier one             *)
getByName(r, name) ==
    LET idx == CHOOSE i \in 1..Len(r.fields) :
                   /\ r.fields[i] = name
                   /\ \A j \in 1..Len(r.fields) : r.fields[j] = name => j <= i
    IN r.values[idx]

----------------------------------------------------------------------------
(* The file system: the state of the one path.                             *)

Absent == [exists |-> FALSE, perm |-> "rw", text |-> <<>>]
File(perm, text) == [exists |-> TRUE, perm |-> perm, text |-> text]

Texts == UNION {[1..n -> Alphabet] : n \in 0..MaxLen}

(* canOpenRead without the test of the permission *)
canOpenReadExisting(f) == f.exists

(* open(fname, 'r') succeeds on an existing file the process may read *)
canOpenRead(f) == f.exists /\ f.perm = "rw"

(* open(fname, 'w') succeeds unless the file exists and may not be written *)
canOpenWrite(f) == ~f.exists \/ f.perm = "rw"

(* writeFile with the file opened in mode 'a': the text is appended *)
writeFileAppend(f, text) == File(f.perm, f.text \o text)

(* open(fname, 'w') followed by f.write(text): the file is created or     *)
(* truncated, then holds text; an existing file keeps its permissions      *)
writeFile(f, text) == File(f.perm, text)

(* withExit that leaves the file object as it is *)
withExitLeak(h) == h

(* the file object's state when the 'with' block is left: closed *)
withExit(h) == "closed"

----------------------------------------------------------------------------
(* The program state.                                                      *)

VARIABLES
    fs,       \* the file at the path: exists, perm, text
    pc,       \* where the program is: between calls, or at a line of read_csv
    op,       \* the function called last: "none", "create" or "read"
    handle,   \* the file object f of read_csv: "none", "open" or "closed"
    pos,      \* the read position of f
    header,   \* read_csv's local header
    fields,   \* the field names of the class Row
    lines,    \* the lines of f.readlines() the comprehension has yet to take
    acc,      \* the list the comprehension is building
    rows,     \* read_csv's local rows
    exc,      \* the exception travelling out of the 'with' block, or "none"
    result,   \* what the last call returned: {} when it returned no table
    outcome,  \* how the last call ended: "none", "None", "table" or the error
    example   \* TRUE once create_example_csv_file has written the file

vars == <<fs, pc, op, handle, pos, header, fields, lines, acc, rows, exc,
          result, outcome, example>>


Ready == pc \in {"idle", "returned", "raised"}

Init ==
    /\ fs \in {Absent} \cup {File(p, t) : p \in {"rw", "none"}, t \in Texts}
    /\ pc = "idle" /\ op = "none"
    /\ handle = "none" /\ pos = 0 /\ header = <<>> /\ fields = <<>>
    /\ lines = <<>> /\ acc = <<>> /\ rows = <<>> /\ exc = "none"
    /\ result = {} /\ outcome = "none"
    /\ example = FALSE

(* create_example_csv_file(fname), lines 40-50 *)
create_example_csv_file ==
    /\ Ready
    /\ op' = "create"
    /\ handle' = "none" /\ pos' = 0 /\ header' = <<>> /\ fields' = <<>>
    /\ lines' = <<>> /\ acc' = <<>> /\ rows' = <<>> /\ exc' = "none"
    /\ result' = {}
    /\ IF canOpenWrite(fs)
       THEN /\ fs' = writeFile(fs, contents)
            /\ example' = TRUE
            /\ pc' = "returned" /\ outcome' = "None"
       ELSE /\ pc' = "raised" /\ outcome' = "OSError"
            /\ UNCHANGED <<fs, example>>

(* read_csv, line 24: open(fname, 'r') *)
read_csv_open ==
    /\ Ready
    /\ op' = "read"
    /\ header' = <<>> /\ fields' = <<>> /\ lines' = <<>> /\ acc' = <<>>
    /\ rows' = <<>> /\ exc' = "none" /\ result' = {} /\ pos' = 0
    /\ IF canOpenRead(fs)
       THEN /\ handle' = "open" /\ pc' = "line26" /\ outcome' = "none"
       ELSE /\ handle' = "none" /\ pc' = "raised" /\ outcome' = "OSError"
    /\ UNCHANGED <<fs, example>>

(* read_csv, line 26: header = f.readline().replace('"','') *)
read_csv_header ==
    /\ pc = "line26"
    /\ LET l == readline(fs.text, pos) IN
         /\ header' = replace(l, QUOTE)
         /\ pos' = pos + Len(l)
    /\ pc' = "line29"
    /\ UNCHANGED <<fs, op, handle, fields, lines, acc, rows, exc, result, outcome, example>>

(* read_csv, line 29: Row = namedtuple("Row", header) *)
read_csv_namedtuple ==
    /\ pc = "line29"
    /\ LET names == fieldNames(header) IN
         IF validFieldNames(names)
         THEN /\ fields' = names /\ pc' = "line35" /\ exc' = exc
         ELSE /\ fields' = fields /\ pc' = "with_exit" /\ exc' = "ValueError"
    /\ UNCHANGED <<fs, op, handle, pos, header, lines, acc, rows, result, outcome, example>>

(* read_csv, line 35: f.readlines(), the list the comprehension iterates *)
read_csv_readlines ==
    /\ pc = "line35"
    /\ lines' = readlines(fs.text, pos)
    /\ pos' = Len(fs.text)
    /\ acc' = <<>>
    /\ pc' = "line35_for"
    /\ UNCHANGED <<fs, op, handle, header, fields, rows, exc, result, outcome, example>>

(* read_csv_row with each record put in front of the list *)
read_csv_row_prepend ==
    /\ pc = "line35_for" /\ lines # <<>>
    /\ LET tokens == lineTokens(Head(lines)) IN
         IF rowAccepts(fields, tokens)
         THEN /\ acc' = <<Row(fields, tokens)>> \o acc
              /\ lines' = Tail(lines)
              /\ pc' = pc /\ exc' = exc
         ELSE /\ acc' = <<>> /\ lines' = <<>>
              /\ pc' = "with_exit" /\ exc' = "TypeError"
    /\ UNCHANGED <<fs, op, handle, pos, header, fields, rows, result, outcome, example>>

(* read_csv_row that passes over a line Row does not accept *)
read_csv_row_skip ==
    /\ pc = "line35_for" /\ lines # <<>>
    /\ LET tokens == lineTokens(Head(lines)) IN
         IF rowAccepts(fields, tokens)
         THEN acc' = Append(acc, Row(fields, tokens))
         ELSE acc' = acc
    /\ lines' = Tail(lines)
    /\ UNCHANGED <<fs, pc, op, handle, pos, header, fields, rows, exc, result, outcome, example>>

(* read_csv, line 35: one turn of the comprehension, Row called with the   *)
(* tokens of the next line; a TypeError ends the comprehension and drops   *)
(* its list                                                                *)
read_csv_row ==
    /\ pc = "line35_for" /\ lines # <<>>
    /\ LET tokens == lineTokens(Head(lines)) IN
         IF rowAccepts(fields, tokens)
         THEN /\ acc' = Append(acc, Row(fields, tokens))
              /\ lines' = Tail(lines)
              /\ pc' = pc /\ exc' = exc
         ELSE /\ acc' = <<>> /\ lines' = <<>>
              /\ pc' = "with_exit" /\ exc' = "TypeError"
    /\ UNCHANGED <<fs, op, handle, pos, header, fields, rows, result, outcome, example>>

(* read_csv, line 35: the comprehension is exhausted, rows is bound *)
read_csv_rows ==
    /\ pc = "line35_for" /\ lines = <<>>
    /\ rows' = acc
    /\ acc' = <<>>
    /\ pc' = "with_exit"
    /\ UNCHANGED <<fs, op, handle, pos, header, fields, lines, exc, result, outcome, example>>

(* read_csv, lines 24-35: the 'with' block is left, normally or by an      *)
(* exception, which then leaves read_csv                                   *)
read_csv_with_exit ==
    /\ pc = "with_exit"
    /\ handle' = withExit(handle)
    /\ IF exc = "none"
       THEN /\ pc' = "line37" /\ outcome' = outcome
       ELSE /\ pc' = "raised" /\ outcome' = exc
    /\ UNCHANGED <<fs, op, pos, header, fields, lines, acc, rows, exc, result, example>>

(* read_csv, line 37: return rows *)
read_csv_return ==
    /\ pc = "line37"
    /\ result' = {rows}
    /\ outcome' = "table"
    /\ pc' = "returned"
    /\ UNCHANGED <<fs, op, handle, pos, header, fields, lines, acc, rows, exc, example>>

Next ==
    \/ create_example_csv_file
    \/ read_csv_open
    \/ read_csv_header
    \/ read_csv_namedtuple
    \/ read_csv_readlines
    \/ read_csv_row
    \/ read_csv_rows
    \/ read_csv_with_exit
    \/ read_csv_return

Spec == Init /\ [][Next]_vars

TypeOK ==
    /\ pc \in {"idle", "line26", "line29", "line35", "line35_for", "with_exit",
               "line37", "returned", "raised"}
    /\ handle \in {"none", "open", "closed"}
    /\ exc \in {"none", "ValueError", "TypeError"}
    /\ outcome \in {"none", "None", "table", "OSError", "ValueError", "TypeError"}

----------------------------------------------------------------------------
(* The file format, stated on the text of the file rather than by the      *)
(* reader's scan: the claims below compare read_csv's result with it.      *)

SepPos(s, sep) == {i \in 1..Len(s) : s[i] = sep}

NumPieces(s, sep) == Cardinality(SepPos(s, sep)) + 1

(* the position of the k-th sep of s; 0 before the first, Len(s)+1 after   *)
(* the last                                                                *)
KthSep(s, sep, k) ==
    IF k = 0 THEN 0
    ELSE IF k > Cardinality(SepPos(s, sep)) THEN Len(s) + 1
    ELSE CHOOSE i \in SepPos(s, sep) :
             Cardinality({j \in SepPos(s, sep) : j <= i}) = k

(* the k-th piece of s between occurrences of sep *)
Piece(s, sep, k) == SubSeq(s, KthSep(s, sep, k - 1) + 1, KthSep(s, sep, k) - 1)

(* the number of lines of a text; a final newline ends the last line *)
NumLines(t) ==
    IF t = <<>> \/ t[Len(t)] = NL THEN NumPieces(t, NL) - 1 ELSE NumPieces(t, NL)

(* the k-th line of a text, without its terminator *)
Line(t, k) == Piece(t, NL, k)

Unquoted(s) == SelectSeq(s, LAMBDA c : c # QUOTE)

NameSeps == Whitespace \cup {COMMA}

NameStarts(s) ==
    {i \in 1..Len(s) : s[i] \notin NameSeps /\ (i = 1 \/ s[i - 1] \in NameSeps)}

NameEnd(s, i) ==
    CHOOSE j \in i..Len(s) :
        /\ \A m \in i..j : s[m] \notin NameSeps
        /\ (j = Len(s) \/ s[j + 1] \in NameSeps)

(* the names in s: its maximal runs of characters that are neither commas  *)
(* nor whitespace, in order                                                *)
NamesIn(s) ==
    [k \in 1..Cardinality(NameStarts(s)) |->
        LET i == CHOOSE x \in NameStarts(s) :
                     Cardinality({y \in NameStarts(s) : y <= x}) = k
        IN SubSeq(s, i, NameEnd(s, i))]

(* the field names of the header line of the file *)
HeaderNames == NamesIn(Unquoted(Line(fs.text, 1)))

(* the table the last call returned *)
Table == CHOOSE t \in result : TRUE

ReadEnded == op = "read" /\ pc \in {"returned", "raised"}
ReadReturned == op = "read" /\ pc = "returned" /\ outcome = "table"

(* some data line's token count differs from the number of field names *)
Malformed ==
    \E k \in 2..NumLines(fs.text) :
        NumPieces(Unquoted(Line(fs.text, k)), COMMA) # Len(HeaderNames)

----------------------------------------------------------------------------
(* The claims.                                                             *)

(* C1: whatever the path held before, once create_example_csv_file has     *)
(* written it, a read_csv that ends has returned a table with as many      *)
(* records as the example has lines after its header, which is 4.          *)
C1_RoundTrip ==
    (example /\ ReadEnded) =>
        /\ outcome = "table"
        /\ Len(Table) = NumLines(contents) - 1
        /\ Len(Table) = 4

C1_Witness ==
    /\ example /\ ReadReturned
    /\ fs.text = contents /\ Len(Table) = 4

(* C2: the k-th record of a returned table is made of the k-th line after  *)
(* the header: its i-th value is the i-th piece between commas of that     *)
(* line without its quotes and its newline; values are text, the 59 of the *)
(* example is the text "59".                                               *)
C2_OrderAndContent ==
    ReadReturned =>
        /\ Len(Table) = NumLines(fs.text) - (IF NumLines(fs.text) = 0 THEN 0 ELSE 1)
        /\ \A k \in 1..Len(Table) :
             LET body == Unquoted(Line(fs.text, k + 1)) IN
               /\ Len(Table[k].values) = NumPieces(body, COMMA)
               /\ \A i \in 1..Len(Table[k].values) :
                    Table[k].values[i] = Piece(body, COMMA, i)
        /\ example => Table[1].values[3] = <<"5", "9">>

C2_Witness ==
    /\ ReadReturned /\ ~example
    /\ Len(Table) = 2
    /\ Table[1].values = << <<"5">> >>
    /\ Table[2].values = << <<"s">> >>

(* C3: every record of a returned table has as many values as the header   *)
(* has field names, and carries the header's field names in header order.  *)
C3_FieldCount ==
    ReadReturned =>
        \A k \in 1..Len(Table) :
            /\ Len(Table[k].values) = Len(HeaderNames)
            /\ Table[k].fields = HeaderNames

C3_Witness ==
    /\ ReadReturned /\ ~example
    /\ Len(HeaderNames) = 2
    /\ Len(Table) = 1 /\ Len(Table[1].values) = 2

(* C4: in every record of a returned table, reading by the name of the     *)
(* i-th field and reading by position i give the same text.                *)
C4_NameIndexEquivalence ==
    ReadReturned =>
        \A k \in 1..Len(Table) :
            \A i \in 1..Len(Table[k].fields) :
                getByName(Table[k], Table[k].fields[i]) = getByIndex(Table[k], i)

C4_Witness ==
    /\ ReadReturned /\ example
    /\ getByName(Table[1], <<"a", "g", "e">>) = <<"5", "9">>
    /\ getByIndex(Table[1], 3) = <<"5", "9">>

(* C5: when the file opens, its header is accepted and some data line has  *)
(* a token count other than the number of field names, read_csv ends with  *)
(* a TypeError and returns no table.                                       *)
C5_MalformedRowAborts ==
    (ReadEnded /\ fs.exists /\ fs.perm = "rw" /\ outcome # "ValueError" /\ Malformed) =>
        /\ pc = "raised"
        /\ outcome = "TypeError"
        /\ result = {}

C5_Witness ==
    /\ ReadEnded /\ Malformed /\ outcome = "TypeError" /\ result = {}
    /\ fs.text = <<"a", NL, "5", NL, COMMA>>

(* C6: when read_csv has ended after opening the file, by its return, by   *)
(* the ValueError of the header or by the TypeError of a data line, the    *)
(* file object is closed.                                                  *)
C6_HandleReleased ==
    /\ (ReadEnded /\ outcome # "OSError") => handle = "closed"
    /\ pc \in {"idle", "line37", "returned", "raised"} => handle # "open"

C6_Witness ==
    ReadEnded /\ outcome = "TypeError" /\ handle = "closed"

(* C7: a read_csv call on a path that is missing or unreadable ends in     *)
(* that one step with an OSError, returns no table, opens nothing and      *)
(* leaves the file system as it was.                                       *)
C7_UnopenablePath ==
    [][(Ready /\ op' = "read" /\ ~(fs.exists /\ fs.perm = "rw")) =>
          /\ pc' = "raised"
          /\ outcome' = "OSError"
          /\ result' = {}
          /\ handle' = "none"
          /\ fs' = fs]_vars

C7_Witness ==
    ReadEnded /\ outcome = "OSError" /\ ~fs.exists /\ result = {}

(* C8, as claimed: a header that repeats a field name is not rejected for  *)
(* the repetition; with every name acceptable by itself and every data     *)
(* line of the right length, read_csv returns a table.                     *)
C8_Original ==
    (/\ ReadEnded /\ fs.exists /\ fs.perm = "rw"
     /\ hasDuplicate(HeaderNames)
     /\ \A i \in 1..Len(HeaderNames) :
            /\ isidentifier(HeaderNames[i]) /\ ~iskeyword(HeaderNames[i])
            /\ HeaderNames[i][1] # "_"
     /\ ~Malformed)
    => outcome = "table"

(* C8, amended: read_csv of a readable file whose header repeats a field   *)
(* name ends with the ValueError of namedtuple and returns no table.       *)
C8_DuplicateRejected ==
    (ReadEnded /\ fs.exists /\ fs.perm = "rw" /\ hasDuplicate(HeaderNames)) =>
        /\ pc = "raised"
        /\ outcome = "ValueError"
        /\ result = {}

C8_Witness ==
    /\ ReadEnded /\ outcome = "ValueError"
    /\ HeaderNames = << <<"a">>, <<"a">> >>

(* the header line has been read and Row has been made from it *)
RowMade ==
    /\ op = "read"
    /\ pc \in {"line35", "line35_for", "line37", "returned"}
       \/ (pc \in {"with_exit", "raised"} /\ exc # "ValueError" /\ handle # "none")

HeaderTerminated == SepPos(fs.text, NL) # {}

(* C9, as claimed: when the header line ends with a newline, the last      *)
(* field name of Row ends with that newline.                               *)
C9_Original ==
    (RowMade /\ HeaderTerminated /\ fields # <<>>) =>
        LET last == fields[Len(fields)] IN last[Len(last)] = NL

(* C9, amended: the header text read_csv hands to namedtuple keeps the     *)
(* newline of a terminated header line, but no field name of Row contains  *)
(* a newline: the field names are the header's runs of characters other    *)
(* than commas and whitespace, and the header is rejected only when these  *)
(* names are not acceptable.                                               *)
C9_HeaderNewline ==
    /\ (op = "read" /\ handle # "none" /\ pc # "line26" /\ HeaderTerminated) =>
           (header # <<>> /\ header[Len(header)] = NL)
    /\ RowMade =>
           /\ fields = HeaderNames
           /\ \A i \in 1..Len(fields) : \A j \in 1..Len(fields[i]) : fields[i][j] # NL
    /\ (op = "read" /\ exc = "ValueError") => ~validFieldNames(HeaderNames)

C9_Witness ==
    /\ RowMade /\ HeaderTerminated
    /\ header = <<"a", COMMA, "s", NL>>
    /\ fields = << <<"a">>, <<"s">> >>

RECURSIVE SumLen(_)
SumLen(values) == IF values = <<>> THEN 0 ELSE Len(Head(values)) + SumLen(Tail(values))

(* C10: no value of a returned table contains a double quote or a newline, *)
(* and nothing but the quotes, the separating commas and the one newline   *)
(* of the line is missing from the values of a record: other whitespace is *)
(* kept.                                                                   *)
C10_ValueCleanliness ==
    ReadReturned =>
        \A k \in 1..Len(Table) :
            LET v == Table[k].values IN
              /\ \A i \in 1..Len(v) : \A j \in 1..Len(v[i]) : v[i][j] \notin {QUOTE, NL}
              /\ SumLen(v) + (Len(v) - 1) = Len(Unquoted(Line(fs.text, k + 1)))

C10_Witness ==
    /\ ReadReturned /\ ~example
    /\ fs.text = <<"a", NL, QUOTE, SPACE, NL>>
    /\ Table[1].values = << <<SPACE>> >>

====
